---- MODULE Spec2Model ----
(***************************************************************************)
(* QN902x bootloader tools: the frame codec and the response decoder of   *)
(* qntool.py and nvdstool.py, the NVDS block codec of nvdsparser.py, and   *)
(* the handshake and the command sequences of qntool.py's command line.    *)
(* The code is Python 2: strings are byte strings, "/" on integers is      *)
(* floor division, and the iteration order of a dict is unspecified.       *)
(***************************************************************************)
EXTENDS Integers, Sequences, FiniteSets, TLC

(***************************************************************************)
(* Bytes and byte strings.  A byte string is a sequence of 0..255.  A      *)
(* stream handed to the transport may also hold GAP: the place where a     *)
(* read-with-timeout gives up waiting (ser.timeout elapses) and returns    *)
(* what it has.  The end of a stream is silence: every later read times    *)
(* out.                                                                    *)
(***************************************************************************)
GAP == -1

Min(a, b) == IF a < b THEN a ELSE b

Max(a, b) == IF a > b THEN a ELSE b

Pow2(k) == 2 ^ k

Fill(n, b) == [i \in 1..n |-> b]

Tail0(s, k) == SubSeq(s, k + 1, Len(s))

\* data[:n] and data[n:], clipped to the string as Python slices are.
Take(data, n) == SubSeq(data, 1, Min(n, Len(data)))

Drop(data, n) == Tail0(data, Min(n, Len(data)))

\* struct.pack('<H', v): 16-bit unsigned, little-endian.
pack_H(v) == << v % 256, (v \div 256) % 256 >>

\* struct.pack('<L', v): 32-bit unsigned, little-endian.
pack_L(v) == << v % 256, (v \div 256) % 256, (v \div 65536) % 256, (v \div 16777216) % 256 >>

\* struct.pack('<b', v): signed 8-bit, two's complement.
pack_b(v) == IF v < 0 THEN v + 256 ELSE v

\* struct.unpack('<b', ...): the signed value of a byte.
unpack_b(b) == IF b >= 128 THEN b - 256 ELSE b

\* struct.unpack('<H', ...) of two bytes.
unpack_H(lo, hi) == lo + 256 * hi

(***************************************************************************)
(* crc16.crc16xmodem: CRC-16, polynomial 0x1021, initial value 0, no       *)
(* reflection, most significant bit first.  The register after one byte is *)
(* looked up in the table of the bit-by-bit computation, as the library's  *)
(* table-driven code does.                                                 *)
(***************************************************************************)
BitOf(x, k) == (x \div Pow2(k)) % 2

FlipBitOf(x, k) == IF BitOf(x, k) = 1 THEN x - Pow2(k) ELSE x + Pow2(k)

\* x XOR 0x1021 on 16 bits: bits 12, 5 and 0 flipped.
XorPoly(x) == FlipBitOf(FlipBitOf(FlipBitOf(x, 12), 5), 0)

\* One message bit shifted into the register.
CrcBit(crc, bit) ==
    LET shifted == (crc * 2) % 65536
    IN IF BitOf(crc, 15) # bit THEN XorPoly(shifted) ELSE shifted

\* The register after bits k..0 of byte, most significant first.  Each step's
\* value is computed before the next step is entered.
RECURSIVE CrcBits(_, _, _)
CrcBits(crc, byte, k) ==
    IF k < 0 THEN crc
    ELSE LET c == CrcBit(crc, BitOf(byte, k))
         IN IF c >= 0 THEN CrcBits(c, byte, k - 1) ELSE c

\* a XOR b on bytes, and its table.
XorByte(a, b) ==
    LET bit(k) == IF BitOf(a, k) # BitOf(b, k) THEN Pow2(k) ELSE 0
    IN bit(0) + bit(1) + bit(2) + bit(3) + bit(4) + bit(5) + bit(6) + bit(7)

XorTable == [ a \in 0..255 |-> [ b \in 0..255 |-> XorByte(a, b) ] ]

\* The register that held t in its high byte, after one byte was shifted out.
CrcTable == [ t \in 0..255 |-> CrcBits(t * 256, 0, 7) ]

\* crc = ((crc << 8) & 0xffff) ^ table[(crc >> 8) ^ byte]
CrcByte(crc, byte) ==
    LET t == CrcTable[XorTable[crc \div 256][byte]]
    IN XorTable[crc % 256][t \div 256] * 256 + (t % 256)

\* The register after bytes lo..hi of s, halving the range to keep the
\* evaluation shallow.
RECURSIVE CrcRange(_, _, _, _)
CrcRange(crc, s, lo, hi) ==
    IF lo > hi THEN crc
    ELSE IF lo = hi THEN CrcByte(crc, s[lo])
    ELSE LET mid == (lo + hi) \div 2
             left == CrcRange(crc, s, lo, mid)
         IN IF left >= 0 THEN CrcRange(left, s, mid + 1, hi) ELSE left

crc16xmodem(s) == CrcRange(0, s, 1, Len(s))

(***************************************************************************)
(* QNClient.build_packet and the transport's read-with-timeout.            *)
(***************************************************************************)
StartByte == 113

\* build_packet with the length field packed big-endian ('>H' for '<H').
build_packet_bigendian(cmd, data) ==
    LET msg == << pack_b(cmd), (Len(data) \div 256) % 256, Len(data) % 256, 0 >> \o data
    IN << StartByte >> \o msg \o pack_H(crc16xmodem(msg))

build_packet(cmd, data) ==
    LET msg == << pack_b(cmd), Len(data) % 256, (Len(data) \div 256) % 256, 0 >> \o data
    IN << StartByte >> \o msg \o pack_H(crc16xmodem(msg))

\* Index of the first GAP of rx, Len(rx) + 1 when there is none.
FirstGap(rx) ==
    LET gaps == { i \in 1..Len(rx) : rx[i] = GAP }
    IN IF gaps = {} THEN Len(rx) + 1
       ELSE CHOOSE i \in gaps : \A j \in gaps : i <= j

\* ser.read(n) on the stream rx: n bytes when they come before the timeout,
\* else the bytes that came.  A timeout consumes the GAP it waited at.
SerReadUpTo(rx, n, g) ==
    LET k == Min(n, g - 1)
    IN [ got  |-> SubSeq(rx, 1, k),
         rest |-> IF k = n THEN Tail0(rx, k)
                  ELSE IF g <= Len(rx) THEN Tail0(rx, g) ELSE << >> ]

SerRead(rx, n) == SerReadUpTo(rx, n, FirstGap(rx))

(***************************************************************************)
(* QNClient.read_packet.  The operator is the whole decode of one response *)
(* from the stream rx, with ser.timeout = tmo (milliseconds) on entry.     *)
(* It yields how the call ended (ret: "return" or "raise"), the value      *)
(* returned, the header fields it unpacked, the stream left unread, the    *)
(* value ser.timeout is left at, the number of bytes the reads returned    *)
(* and whether some read returned fewer bytes than it asked for.           *)
(***************************************************************************)
TimeoutSync == 20

TimeoutCmd == 500

TimeoutStart == 5000

Outcome(ret, kind, byte, data, err, hcmd, hlen, rest, tmo, used, short) ==
    [ ret |-> ret, kind |-> kind, byte |-> byte, data |-> data, err |-> err,
      hcmd |-> hcmd, hlen |-> hlen, rest |-> rest, timeout |-> tmo,
      used |-> used, short |-> short ]

\* The bytes the checksum of a response is computed over (qntool.py).
ChecksumInput(header, data) == header \o data

\* The two checksum bytes read but not compared.
ChecksumMatches_unchecked(got, crc) == Len(got) = 2

\* self.ser.read(2) == struct.pack('<H', crc)
ChecksumMatches(got, crc) == got = pack_H(crc)

\* The single-byte results returned without further framing.
IsByteResult(b) == b \in {3, 4}

\* Lines 137-141: the checksum bytes r5 against the sum of what was read.
read_packet_checksum(cmd, data_len, data, crc, r5) ==
    LET short == Len(data) < data_len \/ Len(r5.got) < 2
        used == 6 + Len(data) + Len(r5.got)
    IN IF ~ChecksumMatches(r5.got, crc)
       THEN Outcome("raise", "none", 0, << >>, "Invalid checksum", cmd, data_len,
                    r5.rest, TimeoutCmd, used, short)
       ELSE Outcome("return", "data", 0, data, "", cmd, data_len, r5.rest,
                    TimeoutCmd, used, short)

\* Lines 134-137: the payload read r4, its checksum, and the read of two bytes.
read_packet_data(cmd, data_len, header, r4) ==
    read_packet_checksum(cmd, data_len, r4.got,
                         crc16xmodem(ChecksumInput(header, r4.got)),
                         SerRead(r4.rest, 2))

\* Lines 126-134: the header read r3 after the start byte `start`.
read_packet_header(start, r3) ==
    IF Len(r3.got) # 4
    THEN Outcome("raise", "none", 0, << >>, "struct.error", 0, 0, r3.rest,
                 TimeoutCmd, 2 + Len(r3.got), TRUE)
    ELSE IF start # StartByte
    THEN Outcome("raise", "none", 0, << >>, "0x71 expected", unpack_b(r3.got[1]),
                 unpack_H(r3.got[2], r3.got[3]), r3.rest, TimeoutCmd, 6, FALSE)
    ELSE read_packet_data(unpack_b(r3.got[1]), unpack_H(r3.got[2], r3.got[3]),
                          r3.got, SerRead(r3.rest, unpack_H(r3.got[2], r3.got[3])))

\* The start byte read with the timeout put back to 0.5 s before a
\* single-byte result is returned.
read_packet_start_restoring(r2) ==
    IF r2.got = << >>
    THEN Outcome("raise", "none", 0, << >>, "No start byte received!", 0, 0, r2.rest,
                 TimeoutStart, 1, TRUE)
    ELSE IF IsByteResult(r2.got[1])
    THEN Outcome("return", "byte", r2.got[1], << >>, "", 0, 0, r2.rest,
                 TimeoutCmd, 2, FALSE)
    ELSE read_packet_header(r2.got[1], SerRead(r2.rest, 4))

\* Lines 113-126: the start byte read r2, made with ser.timeout = 5.
read_packet_start(r2) ==
    IF r2.got = << >>
    THEN Outcome("raise", "none", 0, << >>, "No start byte received!", 0, 0, r2.rest,
                 TimeoutStart, 1, TRUE)
    ELSE IF IsByteResult(r2.got[1])
    THEN Outcome("return", "byte", r2.got[1], << >>, "", 0, 0, r2.rest,
                 TimeoutStart, 2, FALSE)
    ELSE read_packet_header(r2.got[1], SerRead(r2.rest, 4))

\* Lines 106-113: the sync byte read r1.
read_packet_sync(r1, only_confirm, tmo) ==
    IF r1.got # << 1 >>
    THEN Outcome("raise", "none", 0, << >>, "0x01 expected", 0, 0, r1.rest, tmo,
                 Len(r1.got), Len(r1.got) < 1)
    ELSE IF only_confirm
    THEN Outcome("return", "none", 0, << >>, "", 0, 0, r1.rest, tmo, 1, FALSE)
    ELSE read_packet_start(SerRead(r1.rest, 1))

read_packet(rx, only_confirm, tmo) == read_packet_sync(SerRead(rx, 1), only_confirm, tmo)

(***************************************************************************)
(* nvdstool.py's QNClient.read_packet: no only_confirm flag, the start     *)
(* byte is read with the header, and no header at all returns None.        *)
(***************************************************************************)
\* Lines 114-118: the checksum bytes r4 against the sum of what was read.
nvdstool_read_packet_checksum(cmd, data_len, data, crc, r4, tmo) ==
    LET short == Len(data) < data_len \/ Len(r4.got) < 2
        used == 6 + Len(data) + Len(r4.got)
    IN IF r4.got # pack_H(crc)
       THEN Outcome("raise", "none", 0, << >>, "Invalid checksum", cmd, data_len,
                    r4.rest, tmo, used, short)
       ELSE Outcome("return", "data", 0, data, "", cmd, data_len, r4.rest, tmo,
                    used, short)

\* Lines 112-115: the payload read r3, its checksum, and the read of two bytes.
nvdstool_read_packet_data(cmd, data_len, header, r3, tmo) ==
    nvdstool_read_packet_checksum(cmd, data_len, r3.got,
                                  crc16xmodem(Tail0(header, 1) \o r3.got),
                                  SerRead(r3.rest, 2), tmo)

\* Lines 101-112: the read r2 of the start byte and the header.
nvdstool_read_packet_header(r2, tmo) ==
    IF r2.got = << >>
    THEN Outcome("return", "none", 0, << >>, "", 0, 0, r2.rest, tmo, 1, TRUE)
    ELSE IF Len(r2.got) # 5
    THEN Outcome("raise", "none", 0, << >>, "struct.error", 0, 0, r2.rest, tmo,
                 1 + Len(r2.got), TRUE)
    ELSE IF r2.got[1] # StartByte
    THEN Outcome("raise", "none", 0, << >>, "0x71 expected", unpack_b(r2.got[2]),
                 unpack_H(r2.got[3], r2.got[4]), r2.rest, tmo, 6, FALSE)
    ELSE nvdstool_read_packet_data(unpack_b(r2.got[2]), unpack_H(r2.got[3], r2.got[4]),
                                   r2.got,
                                   SerRead(r2.rest, unpack_H(r2.got[3], r2.got[4])),
                                   tmo)

\* Lines 97-101: the sync byte read r1.
nvdstool_read_packet_sync(r1, tmo) ==
    IF r1.got # << 1 >>
    THEN Outcome("raise", "none", 0, << >>, "0x01 expected", 0, 0, r1.rest, tmo,
                 Len(r1.got), Len(r1.got) < 1)
    ELSE nvdstool_read_packet_header(SerRead(r1.rest, 5), tmo)

nvdstool_read_packet(rx, tmo) == nvdstool_read_packet_sync(SerRead(rx, 1), tmo)

(***************************************************************************)
(* QNClient.calc_div, validate_nvds and the pieces of connect.  Python 2   *)
(* "/" on integers is floor division.  Time is counted in ticks of the     *)
(* sync read timeout (20 ms).                                              *)
(***************************************************************************)
ConnectBaudrate == 9600

\* calc_div without the rounding term tmp / 2.
calc_div_truncating(clock, baudrate) ==
    LET tmp == 16 * baudrate
        inter_div == clock \div tmp
        frac_div == ((clock - inter_div * tmp) * 64) \div tmp
    IN inter_div * 256 + frac_div

calc_div(clock, baudrate) ==
    LET tmp == 16 * baudrate
        inter_div == clock \div tmp
        frac_div == ((clock - inter_div * tmp) * 64 + tmp \div 2) \div tmp
    IN inter_div * 256 + frac_div

\* The sync loop's test the other way round: the bound applies when timeout <= 0 too.
TimedOut_unguarded(timeout, elapsed) == elapsed > timeout

\* if timeout > 0 and time.time() - start_time > timeout: raise Exception('Timeout')
TimedOut(timeout, elapsed) == timeout > 0 /\ elapsed > timeout

\* validate_nvds without the length test.
validate_nvds_signature_only(nvds_data) ==
    IF Take(nvds_data, 4) # << 78, 86, 68, 83 >> THEN "Missing NVDS header" ELSE ""

\* validate_nvds: the message of the exception raised, "" when none is.
validate_nvds(nvds_data) ==
    IF Take(nvds_data, 4) # << 78, 86, 68, 83 >> THEN "Missing NVDS header"
    ELSE IF Len(nvds_data) # 4096 THEN "Invalid NVDS data length"
    ELSE ""

PageSize == 256

\* The chunk taken at the start of the data whatever the offset.
Chunk_unshifted(data, n) == Take(data, PageSize)

\* nvds_data[n:n+256]
Chunk(data, n) == Take(Drop(data, n), PageSize)

(***************************************************************************)
(* NVDSParser.loads and NVDSParser.dumps.  A mapping is a function from a  *)
(* set of keys to byte strings.  dumps walks values.items(), whose order   *)
(* Python 2 leaves unspecified: order is the sequence of keys it yields.   *)
(***************************************************************************)
BlockSize == 4096

Signature == << 78, 86, 68, 83 >>

TypeMarker == 6

EmptyMapping == [k \in {} |-> << >>]

Put(values, key, value) ==
    [k \in DOMAIN values \cup {key} |-> IF k = key THEN value ELSE values[k]]

\* The padding loads removes after a value, skipped whatever the size.
loads_padding_always(size) == 4 - (size % 4)

\* The padding loads removes after a value of the given size.
loads_padding(size) == IF size % 4 # 0 THEN 4 - (size % 4) ELSE 0

\* The padding dumps adds after a value of the given length.
dumps_padding(len) == IF len % 4 # 0 THEN 4 - (len % 4) ELSE 0

RECURSIVE LoadEntries(_, _)
LoadEntries(data, values) ==
    IF Len(data) < 4
    THEN [ ret |-> "raise", values |-> values, err |-> "struct.error" ]
    ELSE
    LET key == data[1]
        unk1 == data[2]
        size == unpack_H(data[3], data[4])
        d1 == Drop(data, 4)
    IN
    IF key = 255 /\ unk1 = 255
    THEN [ ret |-> "return", values |-> values, err |-> "" ]
    ELSE IF unk1 # TypeMarker
    THEN [ ret |-> "raise", values |-> values, err |-> "unk1: expected 6" ]
    ELSE
    LET value == Take(d1, size)
        d2 == Drop(Drop(d1, size), loads_padding(size))
    IN LoadEntries(d2, Put(values, key, value))

loads(data) ==
    IF Take(data, 4) # Signature
    THEN [ ret |-> "raise", values |-> EmptyMapping, err |-> "Missing NVDS signature" ]
    ELSE LoadEntries(Drop(data, 4), EmptyMapping)

RECURSIVE DumpItems(_, _, _)
DumpItems(data, values, order) ==
    IF order = << >> THEN data
    ELSE
    LET key == Head(order)
        value == values[key]
        entry == << key, TypeMarker >> \o pack_H(Len(value)) \o value
                    \o Fill(dumps_padding(Len(value)), 255)
    IN DumpItems(data \o entry, values, Tail(order))

dumps(values, order) ==
    LET data == DumpItems(Signature, values, order)
    IN data \o Fill(Max(0, BlockSize - Len(data)), 255)

\* The orders in which a dict with these keys may be walked.
ItemOrders(keys) ==
    { o \in [1..Cardinality(keys) -> keys] : \A i, j \in DOMAIN o : i # j => o[i] # o[j] }

(***************************************************************************)
(* State.  fr_*: one frame built by build_packet, the stream a decoder is  *)
(* fed and what qntool.py's and nvdstool.py's read_packet make of it.      *)
(***************************************************************************)
VARIABLES fr_pc, fr_cmd, fr_data, fr_wire, fr_how, fr_at, fr_out, fr_out2, fr_confirm

frameVars == << fr_pc, fr_cmd, fr_data, fr_wire, fr_how, fr_at, fr_out, fr_out2,
               fr_confirm >>

\* nv_*: a mapping or a block given to the NVDS codec and what dumps and
\* loads make of it.
VARIABLES nv_pc, nv_m0, nv_b0, nv_m, nv_b, nv_err

nvdsVars == << nv_pc, nv_m0, nv_b0, nv_m, nv_b, nv_err >>

\* One run of qntool.py's command line against a device.
\*   pc           where the program is ("raised": an uncaught exception,
\*                "exited": exit(1), "done": the end of the script)
\*   args         the parsed command line and the file it names
\*   timeout      connect's timeout argument, in ticks
\*   silent       the transport never delivers a byte
\*   flash        the device's NVDS sector, read back page by page
\*   baud, ser_timeout, opens   ser.baudrate, ser.timeout (ms), calls of ser.open()
\*   rxbuf        the bytes on their way to the host, GAPs between them
\*   elapsed      time.time() - start_time, in ticks
\*   nsync        0x33 bytes written (counted up to MaxSync)
\*   polite       the device has answered every 0x33 byte with 0x01 so far,
\*                in time or late
\*   faults       replies of the device, after the sync loop, that were not
\*                the success reply of the command (at most MaxFaults)
\*   sync_ok      the sync loop read 0x01
\*   sent, got    the command frames written and the responses decoded
\*   loop_n       the loop variable n of the page and chunk loops
\*   nvds_data    read_nvds's nvds_data
\*   err, exit_status   the message of the exception raised, the exit status
\*   warned       logger.warning('Invalid NVDS data') was called
\*   saved        what was written to the file named by --read
VARIABLES pc, args, timeout, silent, flash, baud, ser_timeout, opens, rxbuf,
          elapsed, faults, nsync, polite, sync_ok, sent, got, loop_n, nvds_data, err, exit_status,
          warned, saved

sessVars == << pc, args, timeout, silent, flash, baud, ser_timeout, opens, rxbuf,
               elapsed, faults, nsync, polite, sync_ok, sent, got, loop_n, nvds_data, err, exit_status,
               warned, saved >>

\* dv_*: one call of calc_div, its arguments and its value.
VARIABLES dv_pc, dv_clock, dv_baud, dv_out

divVars == << dv_pc, dv_clock, dv_baud, dv_out >>

vars == << frameVars, nvdsVars, sessVars, divVars >>

\* What the steps of one part leave alone: the state of the other parts.
frameOthers == << nvdsVars, sessVars, divVars >>

nvdsOthers == << frameVars, sessVars, divVars >>

sessOthers == << frameVars, nvdsVars, divVars >>

divOthers == << frameVars, nvdsVars, sessVars >>

DivIdle ==
    /\ dv_pc = "idle"
    /\ dv_clock = 0
    /\ dv_baud = 0
    /\ dv_out = 0

\* What a step that logs no warning and saves no file leaves alone besides.
quiet == << sessOthers, warned, saved >>

NoOutcome == Outcome("none", "none", 0, << >>, "", 0, 0, << >>, 0, 0, FALSE)

NoPlace == [ byte |-> 0, bit |-> 0 ]

FrameIdle ==
    /\ fr_pc = "idle"
    /\ fr_cmd = 0
    /\ fr_data = << >>
    /\ fr_wire = << >>
    /\ fr_how = "none"
    /\ fr_at = NoPlace
    /\ fr_out = NoOutcome
    /\ fr_out2 = NoOutcome
    /\ fr_confirm = NoOutcome

NvdsIdle ==
    /\ nv_pc = "idle"
    /\ nv_m0 = EmptyMapping
    /\ nv_b0 = << >>
    /\ nv_m = EmptyMapping
    /\ nv_b = << >>
    /\ nv_err = ""

NoArgs == [ mode |-> "none", force |-> FALSE, file |-> << >>, baudrate |-> 0, clock |-> 0 ]

SessIdle ==
    /\ pc = "idle"
    /\ args = NoArgs
    /\ timeout = 0
    /\ silent = FALSE
    /\ flash = << >>
    /\ baud = 0
    /\ ser_timeout = 0
    /\ opens = 0
    /\ rxbuf = << >>
    /\ elapsed = 0
    /\ faults = 0
    /\ nsync = 0
    /\ polite = TRUE
    /\ sync_ok = FALSE
    /\ sent = << >>
    /\ got = << >>
    /\ loop_n = 0
    /\ nvds_data = << >>
    /\ err = ""
    /\ exit_status = 0
    /\ warned = FALSE
    /\ saved = << >>

(***************************************************************************)
(* The frame codec on bounded inputs: commands at the ends and inside the  *)
(* signed 8-bit range, every payload of up to MaxPayload bytes over        *)
(* PayloadBytes, and one payload of LongLen bytes, whose length needs the  *)
(* high byte of the length field.                                          *)
(***************************************************************************)
MaxPayload == 2

LongLen == 258

FrameCmds == { -128, 0, 52, 127 }

PayloadBytes == { 0, 1, 255 }

FramePayloads ==
    UNION { [1..n -> PayloadBytes] : n \in 0..MaxPayload } \cup { Fill(LongLen, 0) }

\* Positions in the stream 0x01 || frame: 1 the sync byte, 2 the start byte,
\* 3..6 command, length and reserved, 7..6+n the payload, then the checksum.
HeaderPlaces == 3..6

PayloadPlaces(n) == { i \in 7..(6 + n) : i <= 6 + MaxPayload \/ i = 6 + n }

CutPlaces(n) == { k \in 0..(n + 7) : k <= 8 + MaxPayload \/ k >= n + 5 }

\* What replaces the sync byte (another status) and the start byte (the two
\* single-byte results, and two values that are neither those nor 0x71).
ReplaceBytes(i) == IF i = 1 THEN { 2 } ELSE { 3, 4, 5, 255 }

\* Where the stream with a replaced byte stops: within the header, or not.
ReplaceCuts(n) == (1..6) \cup { n }

FlipAt(wire, i, k) == [wire EXCEPT ![i] = FlipBitOf(wire[i], k)]

FrameStart ==
    /\ fr_pc = "init"
    /\ fr_cmd \in FrameCmds
    /\ fr_data \in FramePayloads
    /\ fr_wire = << >>
    /\ fr_how = "none"
    /\ fr_at = NoPlace
    /\ fr_out = NoOutcome
    /\ fr_out2 = NoOutcome
    /\ fr_confirm = NoOutcome

\* The device's reply: the sync byte 0x01 and the frame of (fr_cmd, fr_data).
FrBuild ==
    /\ fr_pc = "init"
    /\ fr_wire' = << 1 >> \o build_packet(fr_cmd, fr_data)
    /\ fr_how' = "exact"
    /\ fr_pc' = "built"
    /\ UNCHANGED << fr_cmd, fr_data, fr_at, fr_out, fr_out2, fr_confirm >>
    /\ UNCHANGED frameOthers

\* One bit of the header fields or of the payload flipped on the way.
FrFlip ==
    /\ fr_pc = "built"
    /\ \E i \in HeaderPlaces \cup PayloadPlaces(Len(fr_data)), k \in 0..7 :
          /\ fr_wire' = FlipAt(fr_wire, i, k)
          /\ fr_at' = [ byte |-> i, bit |-> k ]
    /\ fr_how' = "flip"
    /\ fr_pc' = "ready"
    /\ UNCHANGED << fr_cmd, fr_data, fr_out, fr_out2, fr_confirm >>
    /\ UNCHANGED frameOthers

\* The stream stops after k bytes: for good (the reads from there on time
\* out), or for one read timeout, the rest arriving late.
FrCut ==
    /\ fr_pc = "built"
    /\ \E k \in CutPlaces(Len(fr_data)), late \in BOOLEAN :
          /\ fr_wire' = IF late
                        THEN SubSeq(fr_wire, 1, k) \o << GAP >> \o Tail0(fr_wire, k)
                        ELSE SubSeq(fr_wire, 1, k)
          /\ fr_at' = [ byte |-> k, bit |-> 0 ]
          /\ fr_how' = IF late THEN "late" ELSE "cut"
    /\ fr_pc' = "ready"
    /\ UNCHANGED << fr_cmd, fr_data, fr_out, fr_out2, fr_confirm >>
    /\ UNCHANGED frameOthers

\* The first byte (the sync byte) or the second (the start byte) replaced by
\* another value, and the stream stopped after k bytes.
FrReplace ==
    /\ fr_pc = "built"
    /\ \E i \in 1..2, k \in ReplaceCuts(Len(fr_wire)) :
          \E b \in ReplaceBytes(i) :
             /\ k >= i
             /\ fr_wire' = Take([fr_wire EXCEPT ![i] = b], k)
             /\ fr_at' = [ byte |-> i, bit |-> k ]
    /\ fr_how' = "replace"
    /\ fr_pc' = "ready"
    /\ UNCHANGED << fr_cmd, fr_data, fr_out, fr_out2, fr_confirm >>
    /\ UNCHANGED frameOthers

\* read_packet(only_confirm=False) and read_packet(only_confirm=True) of
\* qntool.py and read_packet of nvdstool.py, each on the stream.
FrDecode ==
    /\ fr_pc \in { "built", "ready" }
    /\ fr_out' = read_packet(fr_wire, FALSE, TimeoutCmd)
    /\ fr_out2' = nvdstool_read_packet(fr_wire, TimeoutCmd)
    /\ fr_confirm' = read_packet(fr_wire, TRUE, TimeoutCmd)
    /\ fr_pc' = "decoded"
    /\ UNCHANGED << fr_cmd, fr_data, fr_wire, fr_how, fr_at >>
    /\ UNCHANGED frameOthers

FrameInit == FrameStart /\ NvdsIdle /\ SessIdle /\ DivIdle

FrameNext == FrBuild \/ FrFlip \/ FrCut \/ FrReplace \/ FrDecode

SpecFrame == FrameInit /\ [][FrameNext]_vars

(***************************************************************************)
(* Claims about the frame codec, checked under SpecFrame.                  *)
(***************************************************************************)
Exact == fr_pc = "decoded" /\ fr_how = "exact"

Flipped == fr_pc = "decoded" /\ fr_how = "flip"

\* The frame as laid out on the wire: 0x71, command, length (16-bit
\* little-endian), 0x00, payload, CRC of all but the start byte.
FrameLayout(frame, cmd, data) ==
    LET n == Len(data)
    IN /\ Len(frame) = n + 7
       /\ frame[1] = 113
       /\ frame[2] = (cmd + 256) % 256
       /\ frame[3] + 256 * frame[4] = n
       /\ frame[5] = 0
       /\ SubSeq(frame, 6, n + 5) = data
       /\ << frame[n + 6], frame[n + 7] >> = pack_H(crc16xmodem(SubSeq(frame, 2, n + 5)))

Decodes(out, cmd, data) ==
    /\ out.ret = "return"
    /\ out.kind = "data"
    /\ out.hcmd = cmd
    /\ out.hlen = Len(data)
    /\ out.data = data

\* C4: build_packet lays the frame out as 0x71, command, length LE16, 0x00,
\* payload, CRC LE16, and read_packet fed 0x01 and that frame recovers the
\* command and the length from the header, passes the checksum test and
\* returns exactly the payload (qntool.py's decoder and nvdstool.py's).
C4_FrameRoundTrip ==
    Exact => /\ FrameLayout(Tail0(fr_wire, 1), fr_cmd, fr_data)
             /\ Decodes(fr_out, fr_cmd, fr_data)
             /\ Decodes(fr_out2, fr_cmd, fr_data)

C4_Witness == Exact /\ fr_cmd < 0 /\ Len(fr_data) > 255 /\ fr_out.ret = "return"

ChecksumError(out) == out.ret = "raise" /\ out.err = "Invalid checksum"

\* The flip cleared a bit of the length field: the decoder reads fewer
\* payload bytes than the frame holds.
LengthCleared == fr_at.byte \in {4, 5} /\ BitOf(fr_wire[fr_at.byte], fr_at.bit) = 0

\* C5 as stated: every single-bit flip in the header fields or the payload
\* makes read_packet fail with the checksum error.
C5_AnyFlipRejected == Flipped => ChecksumError(fr_out)

\* C5 as amended: a flipped frame fails with the checksum error, except
\* that clearing a bit of the length field may be accepted, and then what is
\* returned is the payload cut to the shorter length.
C5_FlipRejectedUnlessShortened ==
    Flipped =>
        \/ ChecksumError(fr_out)
        \/ /\ LengthCleared
           /\ fr_out.ret = "return"
           /\ fr_out.hlen < Len(fr_data)
           /\ fr_out.data = SubSeq(fr_data, 1, fr_out.hlen)

C5_Witness == Flipped /\ ~LengthCleared /\ fr_at.byte \in {4, 5} /\ ChecksumError(fr_out)

\* C6: a decode in which some read returned fewer bytes than it asked for
\* ends by raising, in qntool.py's decoder and in nvdstool.py's.
C6_ShortReadRaises ==
    fr_pc = "decoded" =>
        /\ fr_out.short => fr_out.ret = "raise"
        /\ fr_out2.short => fr_out2.ret = "raise"

\* The first and the second byte the decoder reads from the stream.
SyncRead == SerRead(fr_wire, 1)

StartRead == SerRead(SyncRead.rest, 1)

StartError(out) == out.ret = "raise" /\ out.err = "0x71 expected"

\* What the shape of a response says of the outcome of the decode, but for
\* a start byte that is none of 0x03, 0x04, 0x71.
ShapeDecoded ==
    /\ (Len(SyncRead.got) = 1 /\ SyncRead.got # << 1 >>) =>
          /\ fr_out.ret = "raise" /\ fr_out.used = 1
          /\ fr_confirm.ret = "raise" /\ fr_confirm.used = 1
    /\ SyncRead.got = << 1 >> =>
          /\ fr_confirm.ret = "return" /\ fr_confirm.used = 1
          /\ (Len(StartRead.got) = 1 /\ IsByteResult(StartRead.got[1])) =>
                /\ fr_out.ret = "return" /\ fr_out.kind = "byte"
                /\ fr_out.byte = StartRead.got[1]
                /\ fr_out.used = 2
          /\ (StartRead.got = << StartByte >> /\ ~fr_out.short) =>
                /\ fr_out.used = 8 + fr_out.hlen
                /\ fr_out.ret = "return" => Len(fr_out.data) = fr_out.hlen
          /\ fr_how = "exact" =>
                fr_out.used = 8 + Len(fr_data) /\ fr_out.data = fr_data

OtherStart ==
    /\ SyncRead.got = << 1 >>
    /\ Len(StartRead.got) = 1
    /\ ~IsByteResult(StartRead.got[1])
    /\ StartRead.got[1] # StartByte

\* C15: read_packet classifies a response by its first bytes and consumes
\* exactly the bytes of the classified shape: a sync byte other than 0x01
\* fails after 1 byte; with only_confirm it returns after 1 byte; a second
\* byte 0x03 or 0x04 returns that result after 2 bytes; a second byte that
\* is none of 0x03, 0x04, 0x71 fails with the unexpected-start-byte error; a
\* second byte 0x71 reads 8 + length bytes and returns the payload.
C15_ShapeClassified ==
    fr_pc = "decoded" =>
        /\ ShapeDecoded
        /\ OtherStart => StartError(fr_out)

(***************************************************************************)
(* The NVDS codec on bounded inputs: mappings of up to NvMaxEntries of the *)
(* keys NvKeys to the values NvValues (empty, a multiple of 4, one needing *)
(* padding, and two long ones: one that with a 4-byte value sums to 4000   *)
(* bytes and one that fills the block to its last 4 bytes), and blocks     *)
(* laid out as the format says from lists of such entries.                 *)
(***************************************************************************)
NvMaxEntries == 2

NvKeys == { 1, 2, 255 }

NvValues ==
    { << >>, << 255, 255, 255, 255 >>, << 1, 2, 3, 4, 5 >>,
      Fill(3996, 7), Fill(BlockSize - 12, 0) }

NvMappings ==
    UNION { [S -> NvValues] : S \in { T \in SUBSET NvKeys : Cardinality(T) <= NvMaxEntries } }

NvEntry(key, value) ==
    << key, TypeMarker >> \o pack_H(Len(value)) \o value
        \o Fill((4 - (Len(value) % 4)) % 4, 255)

RECURSIVE NvEntries(_)
NvEntries(list) ==
    IF list = << >> THEN << >>
    ELSE NvEntry(Head(list).key, Head(list).value) \o NvEntries(Tail(list))

NvEntryLists ==
    UNION { [1..n -> [key : NvKeys, value : NvValues]] : n \in 0..NvMaxEntries }

\* A well-formed block: signature, entries, and at least a sentinel's worth
\* of 0xFF fill up to BlockSize.
NvBlocks ==
    { Signature \o NvEntries(l) \o Fill(BlockSize - 4 - Len(NvEntries(l)), 255) :
        l \in { l \in NvEntryLists : 4 + Len(NvEntries(l)) + 4 <= BlockSize } }

NvdsStart ==
    /\ nv_pc \in { "mapping", "block" }
    /\ nv_m0 \in IF nv_pc = "mapping" THEN NvMappings ELSE { EmptyMapping }
    /\ nv_b0 \in IF nv_pc = "block" THEN NvBlocks ELSE { << >> }
    /\ nv_m = nv_m0
    /\ nv_b = nv_b0
    /\ nv_err = ""

\* dumps(values), walking the items in some order.
NvDumps ==
    /\ nv_pc \in { "mapping", "loaded" }
    /\ \E order \in ItemOrders(DOMAIN nv_m) : nv_b' = dumps(nv_m, order)
    /\ nv_pc' = IF nv_pc = "mapping" THEN "dumped" ELSE "redumped"
    /\ UNCHANGED << nv_m0, nv_b0, nv_m, nv_err >>
    /\ UNCHANGED nvdsOthers

\* loads(data): the mapping, or the exception it raises.
NvLoads ==
    /\ nv_pc \in { "block", "dumped" }
    /\ LET r == loads(nv_b)
       IN /\ nv_m' = r.values
          /\ nv_err' = r.err
          /\ nv_pc' = IF r.ret = "raise" THEN "failed"
                      ELSE IF nv_pc = "block" THEN "loaded" ELSE "reloaded"
    /\ UNCHANGED << nv_m0, nv_b0, nv_b >>
    /\ UNCHANGED nvdsOthers

NvdsInit == NvdsStart /\ FrameIdle /\ SessIdle /\ DivIdle

NvdsNext == NvDumps \/ NvLoads

SpecNvds == NvdsInit /\ [][NvdsNext]_vars

(***************************************************************************)
(* Claims about the NVDS codec, checked under SpecNvds.                    *)
(***************************************************************************)
RECURSIVE SumSizes(_, _)
SumSizes(m, keys) ==
    IF keys = {} THEN 0
    ELSE LET k == CHOOSE x \in keys : TRUE
         IN Len(m[k]) + SumSizes(m, keys \ {k})

TotalSize(m) == SumSizes(m, DOMAIN m)

\* Up to 19 keys, every size a multiple of 4, at most 4000 bytes in all.
RoundTripDomain(m) ==
    /\ Cardinality(DOMAIN m) <= 19
    /\ \A k \in DOMAIN m : Len(m[k]) % 4 = 0
    /\ TotalSize(m) <= 4000

\* C7: for a mapping of up to 19 keys whose value sizes are multiples of 4
\* and sum to at most 4000 bytes, loads(dumps(m)) returns m: the same keys
\* and the same bytes for every key, whatever order dumps walks the items in.
C7_NvdsRoundTrip ==
    (nv_pc \in { "reloaded", "failed" } /\ nv_b0 = << >> /\ RoundTripDomain(nv_m0)) =>
        /\ nv_pc = "reloaded"
        /\ nv_m = nv_m0

C7_Witness ==
    /\ nv_pc = "reloaded"
    /\ RoundTripDomain(nv_m0)
    /\ DOMAIN nv_m0 = { 2, 255 }
    /\ TotalSize(nv_m0) = 4000
    /\ nv_m = nv_m0

\* The entries of a block, read as the format lays them out, have distinct keys.
RECURSIVE BlockKeys(_)
BlockKeys(data) ==
    IF Len(data) < 4 \/ (data[1] = 255 /\ data[2] = 255) THEN << >>
    ELSE LET size == unpack_H(data[3], data[4])
         IN << data[1] >> \o BlockKeys(Drop(data, 4 + size + ((4 - (size % 4)) % 4)))

DistinctKeys(block) ==
    LET ks == BlockKeys(Drop(block, 4))
    IN \A i, j \in DOMAIN ks : i # j => ks[i] # ks[j]

\* C8: for a well-formed block b whose entries have distinct keys,
\* dumps(loads(b)) is b byte for byte.
C8_BlockRoundTrip ==
    (nv_pc = "redumped" /\ DistinctKeys(nv_b0)) => nv_b = nv_b0

\* C9: dumps returns a block of exactly BlockSize bytes or fails: it never
\* returns data of another length.
C9_DumpsLength ==
    (nv_pc = "dumped") => Len(nv_b) = BlockSize

(***************************************************************************)
(* qntool.py's command line: connect, then one of read NVDS, write NVDS    *)
(* and program, then reboot.  The device answers each write with a stream  *)
(* chosen from the shapes the decoder tells apart; a silent transport      *)
(* delivers nothing.                                                       *)
(***************************************************************************)
MaxTimeout == 2

MaxFaults == 1

MaxElapsed == MaxTimeout + 2

Timeouts == -1..MaxTimeout

ValidNvds ==
    LET head == Signature \o NvEntry(1, << 1, 2, 3, 4, 5, 6 >>)
    IN head \o Fill(4096 - Len(head), 255)

WriteFiles ==
    { ValidNvds, Fill(4096, 255), Signature \o << 255, 255, 255, 255 >>, << >> }

ProgramFiles == { << >>, Fill(1, 9), Fill(PageSize, 9), Fill(PageSize + 1, 9) }

FlashImages == { ValidNvds, Fill(4096, 255) }

ArgSets ==
    { [ mode |-> "read", force |-> FALSE, file |-> << >>, baudrate |-> 115200,
        clock |-> 16 * 1000000 ] }
    \cup { [ mode |-> "write", force |-> FALSE, file |-> d, baudrate |-> 115200,
             clock |-> 16 * 1000000 ] : d \in WriteFiles }
    \cup { [ mode |-> "write", force |-> TRUE, file |-> d, baudrate |-> 115200,
             clock |-> 16 * 1000000 ] : d \in { f \in WriteFiles : Len(f) < 4096 } }
    \cup { [ mode |-> "program", force |-> FALSE, file |-> d, baudrate |-> 115200,
             clock |-> 16 * 1000000 ] : d \in ProgramFiles }

\* What the device may send after a sync byte: nothing, 0x01, another byte,
\* or 0x01 after the read has timed out.
SyncReplies == { << >>, << 1 >>, << 2 >>, << GAP, 1 >> }

\* The answers of a device that answers every sync byte with 0x01.
PoliteReplies == { << 1 >>, << GAP, 1 >> }

MaxSync == 2

\* After a command answered by a bare acknowledgement.
ConfirmReplies == { << >>, << 2 >> }

\* The acknowledgement, and the single-byte result of a command that succeeded.
Confirmed == << 1 >>

Succeeded == << 1, 3 >>

\* After any other command: nothing, a refusal, an acknowledgement alone, a
\* single-byte result, a frame, a frame with a wrong checksum, another start byte.
ResultReplies(cmd, data) ==
    LET frame == build_packet(cmd, data)
    IN { << >>, << 2 >>, << 1 >>, << 1, 4 >>,
         << 1 >> \o frame,
         << 1 >> \o [frame EXCEPT ![Len(frame)] = (frame[Len(frame)] + 1) % 256],
         << 1, 5, 0, 0, 0, 0 >> }

\* The replies the device may give now: nothing on a silent transport, the
\* success reply alone once it has departed from it MaxFaults times.
Replies(ok, set) ==
    IF silent THEN { << >> }
    ELSE IF faults < MaxFaults THEN set \cup { ok } ELSE { ok }

SessStart ==
    /\ pc = "connect"
    /\ args \in ArgSets
    /\ timeout \in Timeouts
    /\ silent \in BOOLEAN
    /\ flash \in IF args.mode = "read" THEN FlashImages ELSE { ValidNvds }
    /\ baud = 0
    /\ ser_timeout = 0
    /\ opens = 0
    /\ rxbuf = << >>
    /\ elapsed = 0
    /\ faults = 0
    /\ nsync = 0
    /\ polite = TRUE
    /\ sync_ok = FALSE
    /\ sent = << >>
    /\ got = << >>
    /\ loop_n = 0
    /\ nvds_data = << >>
    /\ err = ""
    /\ exit_status = 0
    /\ warned = FALSE
    /\ saved = << >>

\* The bytes received and not read yet.
Unread(rx) == Cardinality({ i \in 1..Len(rx) : rx[i] # GAP })

\* send_command(cmd, data) at the place `here`: the frame is written, and
\* the device's answer sets out.
Send(here, cmd, data, ok, replies, next) ==
    /\ pc = here
    /\ sent' = Append(sent, [ frame |-> build_packet(cmd, data), baud |-> baud,
                              opens |-> opens, pending |-> Unread(rxbuf) ])
    /\ \E reply \in Replies(ok, replies) :
          /\ rxbuf' = rxbuf \o reply
          /\ faults' = IF reply = ok THEN faults ELSE faults + 1
    /\ pc' = next
    /\ UNCHANGED << args, timeout, silent, flash, baud, ser_timeout, opens, elapsed,
                    nsync, polite, sync_ok, got, loop_n, nvds_data, err, exit_status >>

\* What got keeps of a decode: how it ended, what it returned, the byte
\* read as sync, the transport it was read from, the bytes it consumed and
\* ser.timeout before and after it.
Decoded(r, only_confirm) ==
    [ ret |-> r.ret, kind |-> r.kind, byte |-> r.byte, err |-> r.err,
      sync |-> SerRead(rxbuf, 1).got, confirm |-> only_confirm,
      baud |-> baud, opens |-> opens, used |-> r.used,
      before |-> ser_timeout, after |-> r.timeout ]

\* What the decode r leaves behind when the caller drops its value.
Decode(r, only_confirm, next) ==
    /\ rxbuf' = r.rest
    /\ ser_timeout' = r.timeout
    /\ got' = Append(got, Decoded(r, only_confirm))
    /\ pc' = IF r.ret = "raise" THEN "raised" ELSE next
    /\ err' = IF r.ret = "raise" THEN r.err ELSE err
    /\ exit_status' = IF r.ret = "raise" THEN 1 ELSE exit_status

\* read_packet(only_confirm) at the place `here`.
Recv(here, only_confirm, next) ==
    /\ pc = here
    /\ Decode(read_packet(rxbuf, only_confirm, ser_timeout), only_confirm, next)
    /\ UNCHANGED << args, silent, flash, baud, opens, elapsed, faults, nsync, polite, sync_ok,
                    sent, nvds_data >>

clock_reg == pack_L(calc_div(args.clock, args.baudrate))

\* connect, lines 51-58: the port reopened at 9600 baud, start_time taken.
connect_open ==
    /\ pc = "connect"
    /\ baud' = ConnectBaudrate
    /\ ser_timeout' = TimeoutSync
    /\ opens' = opens + 1
    /\ rxbuf' = << >>
    /\ elapsed' = 0
    /\ pc' = "sync_write"
    /\ UNCHANGED << args, timeout, silent, flash, faults, nsync, polite, sync_ok, sent, got, loop_n,
                    nvds_data, err, exit_status >>
    /\ UNCHANGED quiet

\* Where connect goes on after the sync loop: nvdstool.py writes one more
\* 0x33 first (line 73).
AfterSync == IF args.mode = "nvdstool" THEN "nt_sync_write" ELSE "uart_low_send"

\* self.ser.write('\x33')
connect_sync_write ==
    /\ pc = "sync_write"
    /\ nsync' = Min(nsync + 1, MaxSync)
    /\ \E reply \in (IF silent THEN { << >> } ELSE SyncReplies) :
          /\ rxbuf' = rxbuf \o reply
          /\ polite' = (polite /\ reply \in PoliteReplies)
    /\ pc' = "sync_read"
    /\ UNCHANGED << args, timeout, silent, flash, baud, ser_timeout, opens, elapsed,
                    faults, sync_ok, sent, got, loop_n, nvds_data, err, exit_status >>
    /\ UNCHANGED quiet

\* The sync loop taking a byte that is not 0x01 for no byte at all.
connect_sync_read_lenient ==
    /\ pc = "sync_read"
    /\ LET r == SerRead(rxbuf, 1)
       IN /\ rxbuf' = r.rest
          /\ IF r.got = << 1 >>
             THEN /\ elapsed' = elapsed
                  /\ pc' = AfterSync /\ sync_ok' = TRUE /\ err' = err
                  /\ exit_status' = exit_status
             ELSE /\ \E d \in 1..2 : elapsed' = Min(elapsed + d, MaxElapsed)
                  /\ sync_ok' = sync_ok
                  /\ IF TimedOut(timeout, elapsed')
                     THEN pc' = "raised" /\ err' = "Timeout" /\ exit_status' = 1
                     ELSE pc' = "sync_write" /\ err' = err /\ exit_status' = exit_status
    /\ UNCHANGED << args, timeout, silent, flash, baud, ser_timeout, opens, faults,
                    nsync, polite, sent, got, loop_n, nvds_data >>
    /\ UNCHANGED quiet

\* resp = self.ser.read(1) and the tests on it.  A read that timed out took
\* at least its timeout: one tick or more.  A read that returned a byte took
\* less, which may still carry the clock over a tick.
connect_sync_read ==
    /\ pc = "sync_read"
    /\ LET r == SerRead(rxbuf, 1)
       IN /\ rxbuf' = r.rest
          /\ IF r.got # << >>
             THEN /\ \E d \in 0..1 : elapsed' = Min(elapsed + d, MaxElapsed)
                  /\ IF r.got = << 1 >>
                     THEN pc' = AfterSync /\ sync_ok' = TRUE /\ err' = err
                          /\ exit_status' = exit_status
                     ELSE pc' = "raised" /\ sync_ok' = sync_ok
                          /\ err' = "Unexpected response!" /\ exit_status' = 1
             ELSE /\ \E d \in 1..2 : elapsed' = Min(elapsed + d, MaxElapsed)
                  /\ sync_ok' = sync_ok
                  /\ IF TimedOut(timeout, elapsed')
                     THEN pc' = "raised" /\ err' = "Timeout" /\ exit_status' = 1
                     ELSE pc' = "sync_write" /\ err' = err /\ exit_status' = exit_status
    /\ UNCHANGED << args, timeout, silent, flash, baud, ser_timeout, opens, faults, nsync, polite,
                    sent, got, loop_n, nvds_data >>
    /\ UNCHANGED quiet

\* self.send_command(0x34, clock_reg), still at 9600 baud.
connect_uart_low_send ==
    /\ Send("uart_low_send", 52, clock_reg, Confirmed, ConfirmReplies, "uart_low_recv")
    /\ UNCHANGED quiet

\* connect going on to reopen the port without reading the confirm byte.
connect_uart_low_recv_unread ==
    /\ pc = "uart_low_recv"
    /\ pc' = "reopen"
    /\ UNCHANGED << args, timeout, silent, flash, baud, ser_timeout, opens, rxbuf,
                    elapsed, faults, nsync, polite, sync_ok, sent, got, loop_n, nvds_data, err,
                    exit_status >>
    /\ UNCHANGED quiet

\* self.read_packet(True)
connect_uart_low_recv ==
    /\ Recv("uart_low_recv", TRUE, "reopen")
    /\ UNCHANGED << timeout, loop_n >>
    /\ UNCHANGED quiet

\* connect, lines 80-83: the port reopened at the target baud rate.  start_time
\* is not read again: the clock is no longer followed.
connect_reopen ==
    /\ pc = "reopen"
    /\ baud' = args.baudrate
    /\ ser_timeout' = TimeoutCmd
    /\ opens' = opens + 1
    /\ rxbuf' = << >>
    /\ elapsed' = 0
    /\ pc' = "uart_high_send"
    /\ UNCHANGED << args, timeout, silent, flash, faults, nsync, polite, sync_ok, sent, got,
                    loop_n, nvds_data, err, exit_status >>
    /\ UNCHANGED quiet

connect_uart_high_send ==
    /\ Send("uart_high_send", 52, clock_reg, Confirmed, ConfirmReplies, "uart_high_recv")
    /\ UNCHANGED quiet

\* Where __main__ goes on after client.connect().
AfterConnect ==
    CASE args.mode = "read" -> "rd_addr_send"
      [] args.mode = "write" -> "wr_validate"
      [] OTHER -> "pg_addr1_send"

\* self.read_packet(True), and connect's return: its argument goes with it.
connect_uart_high_recv ==
    /\ Recv("uart_high_recv", TRUE, AfterConnect)
    /\ timeout' = IF pc' = "raised" THEN timeout ELSE 0
    /\ UNCHANGED loop_n
    /\ UNCHANGED quiet

(***************************************************************************)
(* --read: client.read_nvds() and the file it is saved to.                 *)
(***************************************************************************)
Pages == 16

\* What the device may send after a read-page command, other than the frame
\* of the next page of its NVDS sector: nothing, a refusal, a single-byte
\* result, a frame with the first byte of the page only.
PageReplies(k) ==
    { << >>, << 2 >>, << 1, 4 >>, << 1, 3 >>,
      << 1 >> \o build_packet(70, SubSeq(flash, k * PageSize + 1, k * PageSize + 1)) }

\* The frame of page k of the device's NVDS sector.
Page(k) ==
    << 1 >> \o build_packet(70, SubSeq(flash, k * PageSize + 1, (k + 1) * PageSize))

\* self.set_program_address(0)
read_nvds_address_send ==
    /\ Send("rd_addr_send", 59, pack_L(0), Confirmed, ConfirmReplies, "rd_addr_recv")
    /\ UNCHANGED quiet

read_nvds_address_recv ==
    /\ Recv("rd_addr_recv", TRUE, "rd_page_send")
    /\ loop_n' = 0
    /\ UNCHANGED timeout
    /\ UNCHANGED quiet

\* self.send_command(0x46, '\x00\x01\x00\x00')
read_nvds_page_send ==
    /\ Send("rd_page_send", 70, << 0, 1, 0, 0 >>, Page(loop_n), PageReplies(loop_n),
            "rd_page_recv")
    /\ UNCHANGED quiet

\* nvds_data += self.read_packet(): a single-byte result is an int, which
\* cannot be added to a string.
AddPage(r) ==
    LET fails == r.ret = "raise" \/ r.kind # "data"
    IN /\ rxbuf' = r.rest
       /\ ser_timeout' = r.timeout
       /\ got' = Append(got, Decoded(r, FALSE))
       /\ err' = IF r.ret = "raise" THEN r.err
                 ELSE IF r.kind # "data" THEN "TypeError" ELSE err
       /\ exit_status' = IF fails THEN 1 ELSE exit_status
       /\ nvds_data' = IF fails THEN nvds_data ELSE nvds_data \o r.data
       /\ loop_n' = IF fails THEN loop_n ELSE loop_n + 1
       /\ pc' = IF fails THEN "raised"
                ELSE IF loop_n + 1 < Pages THEN "rd_page_send" ELSE "rd_return"

read_nvds_page_recv ==
    /\ pc = "rd_page_recv"
    /\ AddPage(read_packet(rxbuf, FALSE, ser_timeout))
    /\ UNCHANGED << args, timeout, silent, flash, baud, opens, elapsed, faults, nsync,
                    polite, sync_ok, sent >>
    /\ UNCHANGED quiet

\* read_nvds with the exception of validate_nvds left to propagate.
read_nvds_return_validating ==
    /\ pc = "rd_return"
    /\ warned' = (validate_nvds(nvds_data) # "")
    /\ saved' = IF warned' THEN saved ELSE nvds_data
    /\ pc' = IF warned' THEN "raised" ELSE "reboot_send"
    /\ UNCHANGED << args, timeout, silent, flash, baud, ser_timeout, opens, rxbuf,
                    elapsed, faults, nsync, polite, sync_ok, sent, got, loop_n, nvds_data, err,
                    exit_status >>
    /\ UNCHANGED sessOthers

\* read_nvds, lines 151-156, and fd.write of what it returns.
read_nvds_return ==
    /\ pc = "rd_return"
    /\ warned' = (validate_nvds(nvds_data) # "")
    /\ saved' = nvds_data
    /\ pc' = "reboot_send"
    /\ UNCHANGED << args, timeout, silent, flash, baud, ser_timeout, opens, rxbuf,
                    elapsed, faults, nsync, polite, sync_ok, sent, got, loop_n, nvds_data, err,
                    exit_status >>
    /\ UNCHANGED sessOthers

(***************************************************************************)
(* --write: validation, erase and the chunks of the file.                  *)
(***************************************************************************)
\* The chunk loop "for n in range(0, len(data), 256)" entered at n = 0 or skipped.
LoopEntry(data, body) == IF Len(data) > 0 THEN body ELSE "reboot_send"

\* The chunk loop after the chunk at loop_n: the next chunk or the end.
LoopNext(data, body) == IF loop_n + PageSize < Len(data) THEN body ELSE "reboot_send"

\* The script with "exit(1)" left out at line 246: it goes on to the end.
write_validate_rebooting ==
    /\ pc = "wr_validate"
    /\ LET invalid == validate_nvds(args.file) # ""
       IN /\ warned' = invalid
          /\ pc' = IF invalid /\ ~args.force THEN "reboot_send" ELSE "wr_addr1_send"
          /\ exit_status' = exit_status
    /\ UNCHANGED << args, timeout, silent, flash, baud, ser_timeout, opens, rxbuf,
                    elapsed, faults, nsync, polite, sync_ok, sent, got, loop_n, nvds_data, err, saved >>
    /\ UNCHANGED sessOthers

\* __main__, lines 240-246.
write_validate ==
    /\ pc = "wr_validate"
    /\ LET invalid == validate_nvds(args.file) # ""
       IN /\ warned' = invalid
          /\ pc' = IF invalid /\ ~args.force THEN "exited" ELSE "wr_addr1_send"
          /\ exit_status' = IF invalid /\ ~args.force THEN 1 ELSE exit_status
    /\ UNCHANGED << args, timeout, silent, flash, baud, ser_timeout, opens, rxbuf,
                    elapsed, faults, nsync, polite, sync_ok, sent, got, loop_n, nvds_data, err, saved >>
    /\ UNCHANGED sessOthers

write_address_send ==
    /\ Send("wr_addr1_send", 59, pack_L(0), Confirmed, ConfirmReplies, "wr_addr1_recv")
    /\ UNCHANGED quiet

write_address_recv ==
    /\ Recv("wr_addr1_recv", TRUE, "wr_erase_send")
    /\ UNCHANGED << timeout, loop_n >>
    /\ UNCHANGED quiet

\* client.sector_erase(1)
write_erase_send ==
    /\ Send("wr_erase_send", 66, pack_L(1), Succeeded, ResultReplies(66, << >>),
            "wr_erase_recv")
    /\ UNCHANGED quiet

write_erase_recv ==
    /\ Recv("wr_erase_recv", FALSE, "wr_addr2_send")
    /\ UNCHANGED << timeout, loop_n >>
    /\ UNCHANGED quiet

write_address2_send ==
    /\ Send("wr_addr2_send", 59, pack_L(0), Confirmed, ConfirmReplies, "wr_addr2_recv")
    /\ UNCHANGED quiet

write_address2_recv ==
    /\ Recv("wr_addr2_recv", TRUE, LoopEntry(args.file, "wr_prog_send"))
    /\ loop_n' = 0
    /\ UNCHANGED timeout
    /\ UNCHANGED quiet

\* client.program(nvds_data[n:n+256])
write_program_send ==
    /\ Send("wr_prog_send", 69, Chunk(args.file, loop_n), Succeeded, ResultReplies(69,
            << >>), "wr_prog_recv")
    /\ UNCHANGED quiet

write_program_recv ==
    /\ Recv("wr_prog_recv", FALSE, LoopNext(args.file, "wr_prog_send"))
    /\ loop_n' = loop_n + PageSize
    /\ UNCHANGED timeout
    /\ UNCHANGED quiet

(***************************************************************************)
(* --program: the application image, and client.reboot() at the end of     *)
(* the script.                                                             *)
(***************************************************************************)
\* client.set_program_address(0x1000)
program_address_send ==
    /\ Send("pg_addr1_send", 59, pack_L(4096), Confirmed, ConfirmReplies, "pg_addr1_recv")
    /\ UNCHANGED quiet

program_address_recv ==
    /\ Recv("pg_addr1_recv", TRUE, "pg_erase_send")
    /\ UNCHANGED << timeout, loop_n >>
    /\ UNCHANGED quiet

\* client.sector_erase(0x0f)
program_erase_send ==
    /\ Send("pg_erase_send", 66, pack_L(15), Succeeded, ResultReplies(66, << >>),
            "pg_erase_recv")
    /\ UNCHANGED quiet

program_erase_recv ==
    /\ Recv("pg_erase_recv", FALSE, "pg_addr2_send")
    /\ UNCHANGED << timeout, loop_n >>
    /\ UNCHANGED quiet

\* client.set_program_address(0x1100)
program_address2_send ==
    /\ Send("pg_addr2_send", 59, pack_L(4352), Confirmed, ConfirmReplies, "pg_addr2_recv")
    /\ UNCHANGED quiet

\* The script without its line 271: the first vendor step is left out.
program_address2_recv_skipping ==
    /\ Recv("pg_addr2_recv", TRUE, "pg_4d_send")
    /\ UNCHANGED << timeout, loop_n >>
    /\ UNCHANGED quiet

program_address2_recv ==
    /\ Recv("pg_addr2_recv", TRUE, "pg_4c_send")
    /\ UNCHANGED << timeout, loop_n >>
    /\ UNCHANGED quiet

\* client.send_command(0x4c, '\x00\x00\x00\x10'); client.read_packet()
program_4c_send ==
    /\ Send("pg_4c_send", 76, << 0, 0, 0, 16 >>, Succeeded, ResultReplies(76, << >>),
            "pg_4c_recv")
    /\ UNCHANGED quiet

program_4c_recv ==
    /\ Recv("pg_4c_recv", FALSE, "pg_4d_send")
    /\ UNCHANGED << timeout, loop_n >>
    /\ UNCHANGED quiet

\* client.send_command(0x4d, '\xd4\x00\x00\x10'); client.read_packet()
program_4d_send ==
    /\ Send("pg_4d_send", 77, << 212, 0, 0, 16 >>, Succeeded, ResultReplies(77, << >>),
            "pg_4d_recv")
    /\ UNCHANGED quiet

program_4d_recv ==
    /\ Recv("pg_4d_recv", FALSE, LoopEntry(args.file, "pg_prog_send"))
    /\ loop_n' = 0
    /\ UNCHANGED timeout
    /\ UNCHANGED quiet

\* client.program(program_data[n:n+256])
program_program_send ==
    /\ Send("pg_prog_send", 69, Chunk(args.file, loop_n), Succeeded, ResultReplies(69,
            << >>), "pg_prog_recv")
    /\ UNCHANGED quiet

program_program_recv ==
    /\ Recv("pg_prog_recv", FALSE, LoopNext(args.file, "pg_prog_send"))
    /\ loop_n' = loop_n + PageSize
    /\ UNCHANGED timeout
    /\ UNCHANGED quiet

\* client.reboot()
reboot_send ==
    /\ Send("reboot_send", 74, << >>, Confirmed, ConfirmReplies, "reboot_recv")
    /\ UNCHANGED quiet

reboot_recv ==
    /\ Recv("reboot_recv", TRUE, "done")
    /\ UNCHANGED << timeout, loop_n >>
    /\ UNCHANGED quiet

SessInit == SessStart /\ FrameIdle /\ NvdsIdle /\ DivIdle

Next ==
    \/ connect_open
    \/ connect_sync_write
    \/ connect_sync_read
    \/ connect_uart_low_send
    \/ connect_uart_low_recv
    \/ connect_reopen
    \/ connect_uart_high_send
    \/ connect_uart_high_recv
    \/ read_nvds_address_send
    \/ read_nvds_address_recv
    \/ read_nvds_page_send
    \/ read_nvds_page_recv
    \/ read_nvds_return
    \/ write_validate
    \/ write_address_send
    \/ write_address_recv
    \/ write_erase_send
    \/ write_erase_recv
    \/ write_address2_send
    \/ write_address2_recv
    \/ write_program_send
    \/ write_program_recv
    \/ program_address_send
    \/ program_address_recv
    \/ program_erase_send
    \/ program_erase_recv
    \/ program_address2_send
    \/ program_address2_recv
    \/ program_4c_send
    \/ program_4c_recv
    \/ program_4d_send
    \/ program_4d_recv
    \/ program_program_send
    \/ program_program_recv
    \/ reboot_send
    \/ reboot_recv

Spec == SessInit /\ [][Next]_vars

\* QNClient.connect alone, called with each timeout on a transport that is
\* silent or not.  It is one thread that waits for nothing but the reads'
\* timeouts: a step of the sync loop that can be taken is taken.
ConnectInit == SessInit /\ args.mode = "read" /\ flash = ValidNvds

ConnectNext ==
    \/ connect_open
    \/ connect_sync_write
    \/ connect_sync_read
    \/ connect_uart_low_send
    \/ connect_uart_low_recv
    \/ connect_reopen
    \/ connect_uart_high_send
    \/ connect_uart_high_recv

SyncLoop == connect_open \/ connect_sync_write \/ connect_sync_read

SpecConnect == ConnectInit /\ [][ConnectNext]_vars /\ WF_vars(SyncLoop)

(***************************************************************************)
(* nvdstool.py's command line with --read: connect, read_nvds and the      *)
(* file.  Its sync loop is that of qntool.py; its read_packet has no       *)
(* only_confirm flag.                                                      *)
(***************************************************************************)
NvdstoolArgs ==
    [ mode |-> "nvdstool", force |-> FALSE, file |-> << >>, baudrate |-> 115200,
      clock |-> 0 ]

NtStart ==
    /\ pc = "connect"
    /\ args = NvdstoolArgs
    /\ timeout \in Timeouts
    /\ silent \in BOOLEAN
    /\ flash \in FlashImages
    /\ baud = 0
    /\ ser_timeout = 0
    /\ opens = 0
    /\ rxbuf = << >>
    /\ elapsed = 0
    /\ faults = 0
    /\ nsync = 0
    /\ polite = TRUE
    /\ sync_ok = FALSE
    /\ sent = << >>
    /\ got = << >>
    /\ loop_n = 0
    /\ nvds_data = << >>
    /\ err = ""
    /\ exit_status = 0
    /\ warned = FALSE
    /\ saved = << >>

\* nvdstool.py's read_packet() at the place `here`.
NtRecv(here, next) ==
    /\ pc = here
    /\ Decode(nvdstool_read_packet(rxbuf, ser_timeout), FALSE, next)
    /\ UNCHANGED << args, silent, flash, baud, opens, elapsed, faults, nsync, polite,
                    sync_ok, sent, nvds_data >>

\* Line 73: self.ser.write('\x33') after the loop.
nt_sync_write ==
    /\ pc = "nt_sync_write"
    /\ nsync' = Min(nsync + 1, MaxSync)
    /\ sent' = Append(sent, [ frame |-> << 51 >>, baud |-> baud, opens |-> opens,
                              pending |-> Unread(rxbuf) ])
    /\ \E reply \in { << >>, << 1 >> } :
          /\ rxbuf' = rxbuf \o reply
          /\ polite' = (polite /\ reply \in PoliteReplies)
    /\ pc' = "nt_uart_low_send"
    /\ UNCHANGED << args, timeout, silent, flash, baud, ser_timeout, opens, elapsed,
                    faults, sync_ok, got, loop_n, nvds_data, err, exit_status >>
    /\ UNCHANGED quiet

\* Line 74: self.send_command(0x34, '\x2c\x08\x00\x00')
nt_uart_low_send ==
    /\ Send("nt_uart_low_send", 52, << 44, 8, 0, 0 >>, Confirmed, ConfirmReplies,
            "nt_uart_low_recv")
    /\ UNCHANGED quiet

nt_uart_low_recv ==
    /\ NtRecv("nt_uart_low_recv", "nt_reopen")
    /\ UNCHANGED << timeout, loop_n >>
    /\ UNCHANGED quiet

\* Lines 77-80: the port reopened at the target baud rate.
nt_reopen ==
    /\ pc = "nt_reopen"
    /\ baud' = args.baudrate
    /\ ser_timeout' = TimeoutCmd
    /\ opens' = opens + 1
    /\ rxbuf' = << >>
    /\ elapsed' = 0
    /\ pc' = "nt_uart_high_send"
    /\ UNCHANGED << args, timeout, silent, flash, faults, nsync, polite, sync_ok, sent,
                    got, loop_n, nvds_data, err, exit_status >>
    /\ UNCHANGED quiet

nt_uart_high_send ==
    /\ Send("nt_uart_high_send", 52, << 44, 8, 0, 0 >>, Confirmed, ConfirmReplies,
            "nt_uart_high_recv")
    /\ UNCHANGED quiet

\* Line 83, and connect's return.
nt_uart_high_recv ==
    /\ NtRecv("nt_uart_high_recv", "nt_addr_send")
    /\ timeout' = IF pc' = "raised" THEN timeout ELSE 0
    /\ UNCHANGED loop_n
    /\ UNCHANGED quiet

\* read_nvds, line 121: self.send_command(0x3b, '\x00\x00\x00\x00')
nt_address_send ==
    /\ Send("nt_addr_send", 59, << 0, 0, 0, 0 >>, Confirmed, ConfirmReplies,
            "nt_addr_recv")
    /\ UNCHANGED quiet

nt_address_recv ==
    /\ NtRecv("nt_addr_recv", "nt_page_send")
    /\ loop_n' = 0
    /\ UNCHANGED timeout
    /\ UNCHANGED quiet

\* Line 126: self.send_command(0x46, '\x00\x01\x00\x00')
nt_page_send ==
    /\ Send("nt_page_send", 70, << 0, 1, 0, 0 >>, Page(loop_n), PageReplies(loop_n),
            "nt_page_recv")
    /\ UNCHANGED quiet

\* Line 127: nvds_data += self.read_packet(); None cannot be added to a string.
NtAddPage(r) ==
    LET fails == r.ret = "raise" \/ r.kind # "data"
    IN /\ rxbuf' = r.rest
       /\ ser_timeout' = r.timeout
       /\ got' = Append(got, Decoded(r, FALSE))
       /\ err' = IF r.ret = "raise" THEN r.err
                 ELSE IF r.kind # "data" THEN "TypeError" ELSE err
       /\ exit_status' = IF fails THEN 1 ELSE exit_status
       /\ nvds_data' = IF fails THEN nvds_data ELSE nvds_data \o r.data
       /\ loop_n' = IF fails THEN loop_n ELSE loop_n + 1
       /\ pc' = IF fails THEN "raised"
                ELSE IF loop_n + 1 < Pages THEN "nt_page_send" ELSE "nt_return"

nt_page_recv ==
    /\ pc = "nt_page_recv"
    /\ NtAddPage(nvdstool_read_packet(rxbuf, ser_timeout))
    /\ UNCHANGED << args, timeout, silent, flash, baud, opens, elapsed, faults, nsync,
                    polite, sync_ok, sent >>
    /\ UNCHANGED quiet

\* read_nvds, lines 129-132, and fd.write of what it returns (line 155).
nt_return ==
    /\ pc = "nt_return"
    /\ warned' = (Take(nvds_data, 4) # << 78, 86, 68, 83 >>)
    /\ saved' = nvds_data
    /\ pc' = "done"
    /\ UNCHANGED << args, timeout, silent, flash, baud, ser_timeout, opens, rxbuf,
                    elapsed, faults, nsync, polite, sync_ok, sent, got, loop_n,
                    nvds_data, err, exit_status >>
    /\ UNCHANGED sessOthers

NtInit == NtStart /\ FrameIdle /\ NvdsIdle /\ DivIdle

NtNext ==
    \/ connect_open
    \/ connect_sync_write
    \/ connect_sync_read
    \/ nt_sync_write
    \/ nt_uart_low_send
    \/ nt_uart_low_recv
    \/ nt_reopen
    \/ nt_uart_high_send
    \/ nt_uart_high_recv
    \/ nt_address_send
    \/ nt_address_recv
    \/ nt_page_send
    \/ nt_page_recv
    \/ nt_return

SpecNvdstool == NtInit /\ [][NtNext]_vars

(***************************************************************************)
(* Properties of the session.                                              *)
(***************************************************************************)
ConnectPlaces ==
    { "connect", "sync_write", "sync_read", "uart_low_send", "uart_low_recv",
      "reopen", "uart_high_send", "uart_high_recv" }

\* connect has returned: the script is past it, or has ended past it.
ConnectReturned ==
    /\ pc \notin ConnectPlaces
    /\ pc = "raised" => Len(sent) > 2

CommandOf(m) == m.frame[2]

UartFrame == << StartByte, 52, 4, 0, 0 >> \o clock_reg
                 \o pack_H(crc16xmodem(<< 52, 4, 0, 0 >> \o clock_reg))

\* C1: the configure-UART frame (0x34 with the divisor register of the target
\* baud rate) is written only after a sync byte 0x01 was read; it is written
\* once at 9600 baud and its confirm byte is read there; the transport is
\* reopened at the target rate only after that confirm; the same frame is then
\* written and confirmed at the target rate; connect returns only after both
\* confirm bytes were 0x01.
C1_ConfigureUart ==
    /\ sent # << >> => sync_ok
    /\ \A i \in 1..Len(sent) :
          /\ (CommandOf(sent[i]) = 52) = (i <= 2)
          /\ (sent[i].baud = ConnectBaudrate) = (i = 1)
          /\ i >= 2 => sent[i].baud = args.baudrate /\ sent[i].opens = 2
    /\ Len(sent) >= 1 => sent[1].frame = UartFrame /\ sent[1].opens = 1
    /\ Len(sent) >= 2 => sent[2].frame = sent[1].frame
    /\ Len(got) >= 1 => got[1].confirm /\ got[1].baud = ConnectBaudrate
                        /\ got[1].opens = 1
    /\ opens >= 2 => /\ opens = 2
                     /\ baud = args.baudrate
                     /\ Len(got) >= 1
                     /\ got[1].ret = "return"
                     /\ got[1].sync = << 1 >>
    /\ Len(got) >= 2 => got[2].confirm /\ got[2].baud = args.baudrate
                        /\ got[2].opens = 2
    /\ ConnectReturned => /\ Len(got) >= 2
                          /\ got[1].sync = << 1 >>
                          /\ got[2].sync = << 1 >>
                          /\ got[2].ret = "return"

\* connect has returned after both exchanges.
C1_Witness ==
    /\ ConnectReturned
    /\ Len(sent) >= 2
    /\ sent[2].baud = 115200
    /\ got[2].sync = << 1 >>

\* C2: on a transport whose reads never return a byte, connect with
\* timeout > 0 ends by raising the timeout error, once the elapsed time
\* exceeds timeout and not before, having written no frame and left the
\* transport at 9600 baud; with timeout <= 0 it never raises and goes on
\* writing 0x33 and reading for ever.
C2_SilentConnect ==
    /\ [](silent => sent = << >> /\ baud \in { 0, ConnectBaudrate })
    /\ [](err = "Timeout" => timeout > 0 /\ elapsed > timeout)
    /\ [](pc = "sync_write" /\ timeout > 0 => elapsed <= timeout)
    /\ (silent /\ timeout > 0) ~> (pc = "raised" /\ err = "Timeout")
    /\ [](silent /\ timeout <= 0 => pc \in { "connect", "sync_write", "sync_read" })
    /\ (silent /\ timeout <= 0) ~> (pc = "sync_write")
    /\ (silent /\ timeout <= 0) ~> (pc = "sync_read")

\* The silent transport has made connect raise the timeout error.
C2_Witness ==
    /\ silent
    /\ timeout > 0
    /\ pc = "raised"
    /\ err = "Timeout"
    /\ elapsed > timeout

\* A response by which the device reports a failure.
DeviceFailure(g) ==
    \/ g.sync = << 2 >>
    \/ g.ret = "return" /\ g.kind = "byte" /\ g.byte = 4

\* C3: a failure reported by the device (sync byte 0x02, or the single-byte
\* result 0x04) ends the session with an error, and no command is written
\* after the one it answered.
C3_FailureStopsSession ==
    \A i \in 1..Len(got) :
        DeviceFailure(got[i]) => pc = "raised" /\ Len(sent) = i

\* The input of --write passes validation.
WellFormed(data) == Len(data) = 4096 /\ SubSeq(data, 1, 4) = << 78, 86, 68, 83 >>

\* C10: in --write an erase (0x42) or program (0x45) frame is written only
\* if the input is "NVDS"-signed and 4096 bytes long or --force is given;
\* when it is neither, the script ends with exit status 1 right after
\* connect, with no set-address, erase, program or reboot frame written.
C10_WriteValidated ==
    args.mode = "write" =>
        /\ (\E i \in 1..Len(sent) : CommandOf(sent[i]) \in { 66, 69 })
              => (WellFormed(args.file) \/ args.force)
        /\ (~WellFormed(args.file) /\ ~args.force) =>
              /\ \A i \in 1..Len(sent) : CommandOf(sent[i]) = 52
              /\ ConnectReturned => pc \in { "wr_validate", "exited" }
              /\ pc = "exited" => exit_status = 1 /\ warned
        /\ pc = "exited" => ~WellFormed(args.file) /\ ~args.force

\* A signed input of the wrong length has ended the script.
C10_Witness ==
    /\ args.mode = "write"
    /\ ~args.force
    /\ Take(args.file, 4) = << 78, 86, 68, 83 >>
    /\ Len(args.file) # 4096
    /\ pc = "exited"
    /\ exit_status = 1

\* The byte the next read of one byte returns, << >> if it times out.
NextByte == SerRead(rxbuf, 1).got

\* C12: in the sync loop each iteration writes one 0x33 byte and then reads
\* one byte; a byte read that is not 0x01 makes connect fail at once,
\* whatever the deadline: nothing more is written, no 0x34 frame is sent and
\* the transport stays at 9600 baud; a byte 0x01 takes the handshake on even
\* when the deadline has passed.
C12_SyncLoop ==
    /\ [](err = "Unexpected response!" =>
             pc = "raised" /\ sent = << >> /\ baud = ConnectBaudrate /\ opens = 1)
    /\ [](pc = "sync_read" => nsync >= 1)
    /\ [][pc = "sync_write" =>
             /\ pc' = "sync_read"
             /\ nsync < MaxSync => nsync' = nsync + 1
             /\ sent' = sent]_vars
    /\ [][pc = "sync_read" =>
             /\ nsync' = nsync
             /\ sent' = sent
             /\ NextByte = << 1 >> => pc' = AfterSync /\ sync_ok'
             /\ NextByte \notin { << >>, << 1 >> } =>
                   pc' = "raised" /\ err' = "Unexpected response!"
             /\ NextByte = << >> => pc' \in { "sync_write", "raised" }]_vars
    /\ [][pc # "raised"]_vars

\* The handshake has gone on from a 0x01 read after the deadline.
C12_Witness ==
    /\ pc = "uart_low_send"
    /\ sync_ok
    /\ timeout > 0
    /\ elapsed > timeout

\* C13: after the sync loop every write to the transport is one encoded
\* command frame, and writes and response decodes alternate, the write
\* first: never two writes without a decode between them, never a decode
\* without a frame written before it.
C13_RequestReply ==
    /\ \A i \in 1..Len(sent) : Len(sent[i].frame) >= 7 /\ sent[i].frame[1] = StartByte
    /\ Len(got) <= Len(sent)
    /\ Len(sent) <= Len(got) + 1

\* C14: against a device that answers every sync byte with 0x01 and every
\* frame with its reply, in time or late, no response decode consumes a byte
\* the device sent in reply to an earlier write: a decode that consumed
\* bytes found none waiting when its frame was written.
C14_OwnReply ==
    (polite /\ faults = 0) =>
        \A i \in 1..Len(got) : got[i].used > 0 => sent[i].pending = 0

\* In --read the decodes after connect's two and the confirmation of
\* set-program-address are those of the pages: the pages added to nvds_data
\* so far, and the length of the payload of page k.
PagesAdded ==
    Cardinality({ i \in 4..Len(got) : got[i].ret = "return" /\ got[i].kind = "data" })

PayloadLen(k) == got[k + 4].used - 8

\* The payloads of the first n pages, in the order of the requests.
RECURSIVE PagesRead(_)
PagesRead(n) ==
    IF n = 0 THEN << >>
    ELSE PagesRead(n - 1)
         \o SubSeq(flash, (n - 1) * PageSize + 1, (n - 1) * PageSize + PayloadLen(n - 1))

\* read_nvds has returned and what it returned was written to the file.
ReadReturned == pc = "reboot_send" \/ Len(sent) > Pages + 3

\* The frames of read_nvds, one at a time, and what it adds up and returns.
ReadSequence ==
    /\ Len(sent) <= Len(got) + 1
    /\ \A i \in 1..Len(sent) :
          /\ CommandOf(sent[i]) = 59 <=> i = 3
          /\ CommandOf(sent[i]) = 70 <=> i \in 4..(Pages + 3)
          /\ i = 3 => sent[i].frame = build_packet(59, pack_L(0))
          /\ i \in 4..(Pages + 3) => sent[i].frame = build_packet(70, << 0, 1, 0, 0 >>)
    /\ nvds_data = PagesRead(PagesAdded)
    /\ IF ReadReturned
       THEN /\ PagesAdded = Pages
            /\ saved = nvds_data
            /\ warned <=> ~WellFormed(nvds_data)
       ELSE saved = << >> /\ ~warned

\* C16 as stated: read_nvds writes set-program-address(0) once, then exactly
\* 16 read-page frames, each after the previous response was decoded, and
\* returns the 16 page payloads concatenated in request order, exactly 4096
\* bytes; a failed validation is only logged and the data still returned.
C16_Returns4096 ==
    args.mode = "read" =>
        /\ ReadSequence
        /\ ReadReturned => Len(saved) = 4096

\* C16 as amended: the same, but what is returned is the payloads the 16
\* responses carried, 4096 bytes when each of them carried 256 bytes.
C16_ReadNvds ==
    args.mode = "read" =>
        /\ ReadSequence
        /\ (ReadReturned /\ \A k \in 0..(Pages - 1) : PayloadLen(k) = PageSize) =>
              Len(saved) = 4096

C16_Witness ==
    /\ args.mode = "read"
    /\ pc = "done"
    /\ warned
    /\ Len(saved) < 4096
    /\ Take(saved, 4) = Signature

\* The payload of a frame written, and where the frames of the chunks
\* start: after connect's two frames and the three of --write or the five
\* of --program.
PayloadOf(m) == SubSeq(m.frame, 6, Len(m.frame) - 2)

ChunkBase == IF args.mode = "write" THEN 5 ELSE 7

ChunksOf(data) == (Len(data) + PageSize - 1) \div PageSize

ProgramFrames == { i \in 1..Len(sent) : CommandOf(sent[i]) = 69 }

RECURSIVE ChunksSent(_)
ChunksSent(n) ==
    IF n = 0 THEN << >> ELSE ChunksSent(n - 1) \o PayloadOf(sent[ChunkBase + n])

\* C17: --write of an accepted input writes set-address(0), erase(1 sector),
\* set-address(0), then one 0x45 frame per chunk; the chunks of an input of
\* length L are data[0:256], data[256:512], ... in increasing offset,
\* ceil(L/256) of them, each of 1..256 bytes, and together they are the
\* input, byte for byte; an empty input sends no program frame (the chunk
\* loop of --program likewise).
C17_WriteChunks ==
    args.mode \in { "write", "program" } =>
        /\ args.mode = "write" =>
              /\ Len(sent) >= 3 => sent[3].frame = build_packet(59, pack_L(0))
              /\ Len(sent) >= 4 => sent[4].frame = build_packet(66, pack_L(1))
              /\ Len(sent) >= 5 => sent[5].frame = build_packet(59, pack_L(0))
        /\ ProgramFrames \subseteq (ChunkBase + 1)..(ChunkBase + ChunksOf(args.file))
        /\ \A i \in ProgramFrames :
              /\ \A j \in (ChunkBase + 1)..i : j \in ProgramFrames
              /\ PayloadOf(sent[i]) =
                    SubSeq(args.file, (i - ChunkBase - 1) * PageSize + 1,
                           Min((i - ChunkBase) * PageSize, Len(args.file)))
              /\ Len(PayloadOf(sent[i])) \in 1..PageSize
              /\ i = Len(sent) => sent[i].frame = build_packet(69, PayloadOf(sent[i]))
        /\ pc = "reboot_send" =>
              /\ Cardinality(ProgramFrames) = ChunksOf(args.file)
              /\ ChunksSent(ChunksOf(args.file)) = args.file

C17_Witness ==
    /\ args.mode = "write"
    /\ pc = "reboot_send"
    /\ Cardinality(ProgramFrames) = 16
    /\ WellFormed(args.file)

\* The five frames --program writes before the image, in their order.
ProgramSetup ==
    << build_packet(59, pack_L(4096)), build_packet(66, pack_L(15)),
       build_packet(59, pack_L(4352)), build_packet(76, << 0, 0, 0, 16 >>),
       build_packet(77, << 212, 0, 0, 16 >>) >>

\* C18: --program writes, each after the previous response was decoded,
\* set-address(0x1000), erase(0x0f sectors), set-address(0x1100), 0x4c with
\* payload 00 00 00 10, 0x4d with payload d4 00 00 10, the 0x45 frames of
\* the image's chunks in increasing offset, and reboot (0x4a) last; no 0x45
\* frame before both vendor steps were answered, no reboot before the
\* response to the last chunk.
C18_ProgramOrder ==
    args.mode = "program" =>
        /\ Len(sent) <= Len(got) + 1
        /\ Len(sent) <= 8 + ChunksOf(args.file)
        /\ \A i \in 1..Len(got) : i < Len(sent) => got[i].ret = "return"
        /\ \A i \in 3..Len(sent) :
              /\ i <= 7 => sent[i].frame = ProgramSetup[i - 2]
              /\ (i > 7 /\ i < 8 + ChunksOf(args.file)) =>
                    /\ CommandOf(sent[i]) = 69
                    /\ PayloadOf(sent[i]) =
                          SubSeq(args.file, (i - 8) * PageSize + 1,
                                 Min((i - 7) * PageSize, Len(args.file)))
              /\ i = 8 + ChunksOf(args.file) => sent[i].frame = build_packet(74, << >>)
        /\ pc = "done" => Len(sent) = 8 + ChunksOf(args.file)

C18_Witness ==
    /\ args.mode = "program"
    /\ pc = "done"
    /\ Len(args.file) = PageSize + 1
    /\ CommandOf(sent[10]) = 74

RebootFrames == { i \in 1..Len(sent) : CommandOf(sent[i]) = 74 }

\* The script has ended, or is about to, without an exception and without
\* exit(1): its operation is complete.
Completed == pc \in { "reboot_recv", "done" }

\* C19: the reboot frame (0x4a) is written exactly once, as the last command
\* of the session, after --read, --write and --program alike when all that
\* came before returned; it is never written when connect or an earlier
\* step raised, or when validation ended --write.
C19_RebootLast ==
    /\ \A i \in RebootFrames :
          /\ i = Len(sent)
          /\ sent[i].frame = build_packet(74, << >>)
          /\ \A j \in 1..(i - 1) : got[j].ret = "return"
    /\ Completed => Cardinality(RebootFrames) = 1
    /\ pc = "exited" => RebootFrames = { }
    /\ (args.mode = "write" /\ ~args.force /\ ~WellFormed(args.file)) => RebootFrames = { }
    /\ (pc = "raised" /\ RebootFrames # { }) =>
          Len(got) = Len(sent) /\ got[Len(got)].ret = "raise"
    /\ (pc \notin { "raised", "exited", "done", "reboot_recv" }) => RebootFrames = { }

C19_Witness ==
    /\ args.mode = "read"
    /\ pc = "done"
    /\ RebootFrames = { Pages + 4 }
    /\ Len(got) = Pages + 4

\* The decode g went as far as reading the 4-byte header.
HeaderRead(g) ==
    g.kind = "data" \/ g.err \in { "struct.error", "0x71 expected", "Invalid checksum" }

\* C20: a confirm-only decode leaves the read timeout as it was; a decode
\* that is not confirm-only sets it to 5 s after a valid sync byte and back
\* to 0.5 s only when it reads the 4-byte header; when it returns a
\* single-byte result or fails for want of a start byte the timeout stays
\* at 5 s, and the next response is read with 5 s instead of 0.5 s.
C20_ReadTimeout ==
    /\ \A i \in 1..Len(got) :
          /\ (got[i].confirm \/ got[i].sync # << 1 >>) => got[i].after = got[i].before
          /\ (~got[i].confirm /\ got[i].sync = << 1 >>) =>
                got[i].after = IF HeaderRead(got[i]) THEN TimeoutCmd ELSE TimeoutStart
          /\ (got[i].kind = "byte" \/ got[i].err = "No start byte received!") =>
                got[i].after = TimeoutStart
          /\ (i < Len(got) /\ got[i + 1].opens = got[i].opens) =>
                got[i + 1].before = got[i].after
    /\ (got # << >> /\ opens = got[Len(got)].opens) => ser_timeout = got[Len(got)].after

C20_Witness ==
    \E i \in 2..Len(got) :
        /\ got[i - 1].kind = "byte"
        /\ got[i].confirm
        /\ got[i].before = TimeoutStart
        /\ got[i].after = TimeoutStart

(***************************************************************************)
(* calc_div on its own: the clocks and baud rates it is called with.       *)
(***************************************************************************)
MaxClock == 130

MaxBaud == 8

DivClocks == 0..MaxClock \cup { 8000000, 16000000, 32000000 }

DivBauds == 1..MaxBaud \cup { 9600, 115200, 1000000 }

DivStart ==
    /\ dv_pc = "called"
    /\ dv_clock \in DivClocks
    /\ dv_baud \in DivBauds
    /\ dv_out = 0

\* self.calc_div(self.clock, self.baudrate)
DivCalc ==
    /\ dv_pc = "called"
    /\ dv_out' = calc_div(dv_clock, dv_baud)
    /\ dv_pc' = "returned"
    /\ UNCHANGED << dv_clock, dv_baud >>
    /\ UNCHANGED divOthers

DivInit == DivStart /\ FrameIdle /\ NvdsIdle /\ SessIdle

DivNext == DivCalc

SpecDiv == DivInit /\ [][DivNext]_vars

\* Bitwise or of two naturals.
RECURSIVE BitOr(_, _)
BitOr(a, b) ==
    IF a = 0 THEN b
    ELSE IF b = 0 THEN a
    ELSE Max(a % 2, b % 2) + 2 * BitOr(a \div 2, b \div 2)

Scaled == 16 * dv_baud

IntegerDivisor == dv_clock \div Scaled

FractionalDivisor ==
    ((dv_clock - IntegerDivisor * Scaled) * 64 + Scaled \div 2) \div Scaled

\* The payload nvdstool.py sends with command 0x34.
ReferencePayload == << 44, 8, 0, 0 >>

\* C11: calc_div(clockHz, baudRate) is (I << 8) | F with I and F the integer
\* and the rounded fractional divisor; F never exceeds 64, so adding F is the
\* same as or-ing it; for 16 MHz and 115200 baud the value is 0x082C, whose
\* 32-bit little-endian encoding is the payload 2C 08 00 00.
C11_Divisor ==
    dv_pc = "returned" =>
        /\ dv_out = BitOr(IntegerDivisor * 256, FractionalDivisor)
        /\ FractionalDivisor <= 64
        /\ (dv_clock = 16000000 /\ dv_baud = 115200) =>
              dv_out = 2092 /\ pack_L(dv_out) = ReferencePayload

\* The reference case was computed.
C11_Witness ==
    /\ dv_pc = "returned"
    /\ dv_clock = 16000000
    /\ dv_baud = 115200
    /\ dv_out = 2092

====
